---- MODULE Spec2Model ----
(***************************************************************************)
(* The HNSW fixed-size-chunk memory pool of src/src/hnswpool.c as a state  *)
(* machine: HnswCreatePool, HnswPoolAlloc and HnswPoolFree acting on one   *)
(* pool handle, the bytes of its chunk buffer, and the memory contexts     *)
(* HnswCreatePool leaves under its parent context; the registry slot      *)
(* hnsw_tuple_pool with HnswInitMemoryPools and HnswCleanupMemoryPools;    *)
(* and the recall tracking of src/src/vector_recall.c.                     *)
(*                                                                         *)
(* Addresses are natural numbers.  Size is the unsigned size type, kept    *)
(* here at a reduced width (arithmetic modulo SizeModulus) together with a *)
(* reduced alignment unit, so that the overflow check of HnswCreatePool    *)
(* and whole pools both fit the state space.                               *)
(***************************************************************************)
EXTENDS Integers, Sequences, FiniteSets

(* ---- bounds of the model ---- *)
\* largest initial_chunks a caller passes to HnswCreatePool
MaxChunks == 3
\* largest initial_chunks in the specification that tracks chunk contents
MemMaxChunks == 1
\* largest chunk_size passed to HnswCreatePool in that specification
MemMaxChunkSize == 2
\* HnswCreatePool calls in one run (each failed call leaves a context behind)
MaxCreates == 1
\* fallback (palloc0) allocations that are live at the same time
MaxFallback == 1
\* pools HnswInitMemoryPools creates in one run
MaxInits == 2
\* indexes queried in one session
MaxIndexes == 2
\* largest value the sample-rate setting is given
MaxSampleRate == 3
\* largest LIMIT of a tracked query
MaxLimit == 1
\* tracked TrackVectorQuery calls in one session
MaxTracked == 5

(* ---- the platform ---- *)
\* Size: values 0 .. SizeModulus-1, arithmetic wraps modulo SizeModulus
SizeModulus == 8
\* the alignment unit MAXALIGN rounds up to
MAXIMUM_ALIGNOF == 2
\* the null pointer
NULL == 0
\* the address palloc returns for the chunk buffer (a MAXALIGNed address)
PoolBase == 2

\* int: values INT_MIN .. INT_MAX, kept at a reduced width like Size
IntModulus == 8
\* the chunk size and chunk count of the registered pool (hnsw.h)
HNSW_TUPLE_ALLOC_SIZE == 2
HNSW_POOL_INITIAL_CHUNKS == 2
\* the start value of pgvector.recall_sample_rate
pgvector_recall_sample_rate_default == 2
\* pgvector.recall_max_samples
pgvector_recall_max_samples == 2

SizeMax == SizeModulus - 1
INT_MAX == IntModulus \div 2 - 1
INT_MIN == 0 - IntModulus \div 2
SizeT == 0 .. SizeMax
Byte == {0, 1}

\* addresses the general allocator hands out for fallback allocations: they
\* lie above every address a pool buffer, or a write running past it, can have
HeapBase == PoolBase + 2 * SizeModulus
FallbackAddrs == {HeapBase + MAXIMUM_ALIGNOF * i : i \in 0 .. (MaxFallback - 1)}
\* the pointers a caller may pass to HnswPoolFree: null, an address below the
\* buffer, every address a buffer can cover, the address just past the largest
\* buffer, and the fallback allocations
Ptr == (0 .. (PoolBase + SizeMax - 1)) \cup FallbackAddrs

(* ---- pure helpers, computed as the code computes them ---- *)
\* MAXALIGN(LEN): (LEN + (ALIGNOF-1)) & ~(ALIGNOF-1) in Size arithmetic
MAXALIGN(len) ==
    LET x == (len + (MAXIMUM_ALIGNOF - 1)) % SizeModulus
    IN  x - (x % MAXIMUM_ALIGNOF)

\* a * b in Size arithmetic
SizeMul(a, b) == (a * b) % SizeModulus

\* the overflow test of HnswCreatePool, by inverse division
CreateOverflows(chunk_size, initial_chunks) ==
    /\ initial_chunks > 0
    /\ (SizeMul(chunk_size, initial_chunks) \div initial_chunks) # chunk_size

\* the free list HnswCreatePool builds: entry i (0-based) is
\* pool_memory + i * chunk_size; the array is kept 1-based here
InitialFreelist(pool_memory, chunk_size, initial_chunks) ==
    [i \in 1 .. initial_chunks |-> pool_memory + SizeMul(i - 1, chunk_size)]

\* the addresses whose bytes the model tracks for a pool: its buffer, and the
\* bytes after it that a MemSet starting inside the last chunk can reach
Window(chunk_size, total_memory) ==
    IF total_memory = 0 THEN {}
    ELSE PoolBase .. (PoolBase + total_memory + chunk_size - 2)

\* faulty variants of the tests and of MemSet below (an off-by-one in each)
FreelistFullOffByOne(p) == p.freelist_count > p.total_chunks

InPoolBoundsOffByOne(p, ptr) ==
    /\ ptr >= p.pool_memory
    /\ ptr <= p.pool_memory + SizeMul(p.chunk_size, p.total_chunks)

MemSetOneMore(m, start, len) ==
    [a \in DOMAIN m |-> IF a >= start /\ a <= start + len THEN 0 ELSE m[a]]

AllocFallsBackIgnoringSize(p, size) ==
    \/ ~p.valid
    \/ ~p.enabled
    \/ p.freelist_count = 0

\* MemSet(start, 0, len) on the tracked bytes
MemSet(m, start, len) ==
    [a \in DOMAIN m |-> IF a >= start /\ a < start + len THEN 0 ELSE m[a]]

\* the handle value before a pool is created
NullPool ==
    [valid |-> FALSE, chunk_size |-> 0, total_chunks |-> 0, freelist_count |-> 0,
     freelist |-> <<>>, pool_memory |-> NULL, enabled |-> FALSE]

\* "pointer is within pool bounds" as HnswPoolFree tests it
InPoolBounds(p, ptr) ==
    /\ ptr >= p.pool_memory
    /\ ptr < p.pool_memory + SizeMul(p.chunk_size, p.total_chunks)

\* "do we have space in freelist" failing, as HnswPoolFree tests it
FreelistFull(p) == p.freelist_count >= p.total_chunks

\* the double-free scan of HnswPoolFree
InFreelist(p, ptr) == \E i \in 1 .. p.freelist_count : p.freelist[i] = ptr

\* the fast-path test of HnswPoolAlloc, negated as in the code
AllocFallsBack(p, size) ==
    \/ ~p.valid
    \/ ~p.enabled
    \/ size > p.chunk_size
    \/ p.freelist_count = 0

VARIABLES
    pool,        \* the pool handle (NullPool: no handle)
    mem,         \* bytes of the chunk buffer and of the memory just after it
    contexts,    \* child contexts of parent_context, in creation order
    palloced,    \* live fallback allocations
    checked_out, \* addresses HnswPoolAlloc returned from the free list, not freed since
    run,         \* results of the allocs made since creation, while only fitting allocs were made
    last,        \* the last call: operation, argument, result, path taken
    lifetimes,   \* per pool HnswInitMemoryPools created: how often it was destroyed
    ledger,      \* the pointers callers hold, and what a balanced run returned and pfreed
    recall       \* the recall settings, query_counter and the per-index statistics

vars == <<pool, mem, contexts, palloced, checked_out, run, last, lifetimes, ledger, recall>>

\* the registry slot
hnsw_tuple_pool == pool

NoCall ==
    [op |-> "none", arg |-> 0, arg2 |-> 0, ret |-> NULL, path |-> "none",
     held |-> FALSE, dirty |-> FALSE, pfreed |-> <<>>]

NoRun == [ok |-> FALSE, results |-> <<>>]

NoLedger == [shape |-> "none", owed |-> <<>>, returned |-> <<>>, pfreed |-> <<>>]

\* recall tracking before InitVectorRecallTracking: the settings hold their
\* start values, recall_stats_hash is NULL, query_counter is 0; calls is the
\* number of TrackVectorQuery calls that passed the enabled test
IndexOids == 1 .. MaxIndexes

\* the zeroed VectorRecallStats of an index; present: the hash table has an
\* entry for the index
NoStats ==
    [present |-> FALSE, total_queries |-> 0, sampled_queries |-> 0,
     total_results_returned |-> 0, correct_matches |-> 0, total_expected |-> 0]

NoRecall ==
    [track |-> FALSE, rate |-> pgvector_recall_sample_rate_default, hash |-> FALSE,
     query_counter |-> 0, calls |-> 0, stats |-> [i \in IndexOids |-> NoStats]]

Init ==
    /\ pool = NullPool
    /\ mem = [a \in {} |-> 0]
    /\ contexts = <<>>
    /\ palloced = {}
    /\ checked_out = {}
    /\ run = NoRun
    /\ last = NoCall
    /\ lifetimes = <<>>
    /\ ledger = NoLedger
    /\ recall = NoRecall

(***************************************************************************)
(* HnswCreatePool(chunk_size, initial_chunks, parent_context).  contents   *)
(* is what the freshly palloc'ed (uninitialised) buffer happens to hold.   *)
(* The context is created and the pool structure allocated in it before    *)
(* the overflow check; ereport(ERROR) leaves the function without          *)
(* deleting the context.  initial_chunks is taken >= 0: with a negative    *)
(* count the overflow check is skipped and the request for the free-list   *)
(* array, pointer size times initial_chunks in Size arithmetic, is refused *)
(* by palloc, so no handle is returned.  The allocator's own limits        *)
(* (out of memory, MaxAllocSize) are not modelled.                         *)
(***************************************************************************)
HnswCreatePool(chunk_size, initial_chunks, contents) ==
    /\ ~pool.valid
    /\ Len(contexts) < MaxCreates
    /\ LET cs == MAXALIGN(chunk_size)
           total_memory == SizeMul(cs, initial_chunks)
       IN  IF CreateOverflows(cs, initial_chunks)
           THEN /\ contexts' = Append(contexts,
                        [pool_struct |-> TRUE, pool_memory |-> FALSE, freelist |-> FALSE])
                /\ last' = [NoCall EXCEPT !.op = "create", !.arg = chunk_size,
                                          !.arg2 = initial_chunks, !.path = "overflow"]
                /\ UNCHANGED <<pool, mem, palloced, checked_out, run>>
           ELSE /\ contents \in [Window(cs, total_memory) -> Byte]
                /\ contexts' = Append(contexts,
                        [pool_struct |-> TRUE, pool_memory |-> TRUE, freelist |-> TRUE])
                /\ pool' = [valid |-> TRUE, chunk_size |-> cs,
                            total_chunks |-> initial_chunks,
                            freelist_count |-> initial_chunks,
                            freelist |-> InitialFreelist(PoolBase, cs, initial_chunks),
                            pool_memory |-> PoolBase, enabled |-> TRUE]
                /\ mem' = contents
                /\ checked_out' = {}
                /\ run' = [ok |-> TRUE, results |-> <<>>]
                /\ last' = [NoCall EXCEPT !.op = "create", !.arg = chunk_size,
                                          !.arg2 = initial_chunks, !.ret = PoolBase,
                                          !.path = "created"]
                /\ UNCHANGED palloced

\* the record of the allocs made since creation
RunAfterAlloc(size, result) ==
    IF run.ok /\ size <= pool.chunk_size /\ Len(run.results) <= pool.total_chunks
    THEN [run EXCEPT !.results = Append(@, result)]
    ELSE NoRun

(***************************************************************************)
(* HnswPoolAlloc(pool, size).  addr is the address palloc0 returns when    *)
(* the call falls back.                                                    *)
(***************************************************************************)
HnswPoolAlloc(size, addr) ==
    IF AllocFallsBack(pool, size)
    THEN /\ addr \in FallbackAddrs \ palloced
         /\ palloced' = palloced \cup {addr}
         /\ run' = IF pool.valid THEN RunAfterAlloc(size, addr) ELSE run
         /\ last' = [NoCall EXCEPT !.op = "alloc", !.arg = size, !.ret = addr,
                                   !.path = "fallback"]
         /\ UNCHANGED <<pool, mem, contexts, checked_out>>
    ELSE LET count == pool.freelist_count - 1
             result == pool.freelist[count + 1]
         IN  /\ addr = NULL
             /\ pool' = [pool EXCEPT !.freelist_count = count]
             /\ mem' = MemSet(mem, result, size)
             /\ checked_out' = checked_out \cup {result}
             /\ run' = RunAfterAlloc(size, result)
             /\ last' = [NoCall EXCEPT !.op = "alloc", !.arg = size, !.ret = result,
                            !.path = "pool",
                            !.dirty = \E a \in DOMAIN mem :
                                         a >= result /\ a < result + size /\ mem[a] # 0]
             /\ UNCHANGED <<contexts, palloced>>

(***************************************************************************)
(* HnswPoolFree(pool, ptr): the branch the call takes, the handle it       *)
(* leaves, and the call as a whole.                                        *)
(***************************************************************************)
FreePath(p, ptr) ==
    IF ~p.valid \/ ~p.enabled \/ ptr = NULL
    THEN (IF ptr # NULL THEN "pfree" ELSE "null")
    ELSE IF ~InPoolBounds(p, ptr) THEN "pfree"
    ELSE IF FreelistFull(p) THEN "full"
    ELSE IF InFreelist(p, ptr) THEN "double"
    ELSE "push"

\* a faulty variant: the push is made without the "space in freelist" test
PoolAfterFreeWithoutFullTest(p, ptr) ==
    IF FreePath(p, ptr) \in {"push", "full"}
    THEN [p EXCEPT !.freelist_count = p.freelist_count + 1]
    ELSE p

\* a faulty variant: the push counts the slot without storing ptr in it
PoolAfterFreeWithoutStore(p, ptr) ==
    IF FreePath(p, ptr) = "push"
    THEN [p EXCEPT !.freelist_count = p.freelist_count + 1]
    ELSE p

PoolAfterFree(p, ptr) ==
    IF FreePath(p, ptr) = "push"
    THEN [p EXCEPT !.freelist[p.freelist_count + 1] = ptr,
                   !.freelist_count = p.freelist_count + 1]
    ELSE p

HnswPoolFree(ptr) ==
    LET path == FreePath(pool, ptr)
    IN  /\ pool' = PoolAfterFree(pool, ptr)
        /\ palloced' = IF path = "pfree" THEN palloced \ {ptr} ELSE palloced
        /\ checked_out' = checked_out \ {ptr}
        /\ run' = IF pool.valid THEN NoRun ELSE run
        /\ last' = [NoCall EXCEPT !.op = "free", !.arg = ptr, !.path = path,
                                  !.held = ptr \in checked_out,
                                  !.pfreed = IF path = "pfree" THEN <<ptr>> ELSE <<>>]
        /\ UNCHANGED <<mem, contexts>>

\* the sizes callers request: nothing, one byte, a whole chunk, one byte more
AllocSizes == {0, 1, pool.chunk_size, pool.chunk_size + 1} \cap SizeT

\* the buffer contents in Spec, which follows the free-list protocol: the code
\* never reads chunk bytes, so one content (all zero) stands for all of them;
\* SpecMem below starts from every content
ZeroContents(chunk_size, initial_chunks) ==
    [a \in Window(MAXALIGN(chunk_size), SizeMul(MAXALIGN(chunk_size), initial_chunks)) |-> 0]

Create ==
    /\ \E chunk_size \in SizeT, initial_chunks \in 0 .. MaxChunks :
           HnswCreatePool(chunk_size, initial_chunks,
                          ZeroContents(chunk_size, initial_chunks))
    /\ UNCHANGED <<lifetimes, ledger, recall>>

Alloc ==
    /\ \E size \in AllocSizes, addr \in FallbackAddrs \cup {NULL} :
           HnswPoolAlloc(size, addr)
    /\ UNCHANGED <<lifetimes, ledger, recall>>

Free ==
    /\ \E ptr \in Ptr : HnswPoolFree(ptr)
    /\ UNCHANGED <<lifetimes, ledger, recall>>

Next == Create \/ Alloc \/ Free

Spec == Init /\ [][Next]_vars

(***************************************************************************)
(* The same calls with the chunk contents followed: the buffer starts with *)
(* whatever palloc left in it, and the holder of a chunk writes into it.   *)
(***************************************************************************)
\* a holder stores v at address a of a chunk it was given
CallerWrite(a, v) ==
    /\ pool.valid
    /\ a \in DOMAIN mem
    /\ \E p \in checked_out : a >= p /\ a < p + pool.chunk_size
    /\ mem' = [mem EXCEPT ![a] = v]
    /\ last' = [NoCall EXCEPT !.op = "write"]
    /\ UNCHANGED <<pool, contexts, palloced, checked_out, run>>

CreateMem ==
    /\ ~pool.valid
    /\ \E chunk_size \in 0 .. MemMaxChunkSize, initial_chunks \in 0 .. MemMaxChunks :
           \E contents \in [Window(MAXALIGN(chunk_size),
                                   SizeMul(MAXALIGN(chunk_size), initial_chunks)) -> Byte] :
               HnswCreatePool(chunk_size, initial_chunks, contents)
    /\ UNCHANGED <<lifetimes, ledger, recall>>

Write ==
    /\ \E a \in DOMAIN mem, v \in Byte : CallerWrite(a, v)
    /\ UNCHANGED <<lifetimes, ledger, recall>>

\* the pointers freed while contents are followed: the ones callers hold,
\* and the address after each (inside the chunk, or just past it)
FreeMem ==
    /\ \E ptr \in checked_out \cup palloced \cup {p + 1 : p \in checked_out} :
           HnswPoolFree(ptr)
    /\ UNCHANGED <<lifetimes, ledger, recall>>

NextMem == CreateMem \/ Alloc \/ FreeMem \/ Write

SpecMem == Init /\ [][NextMem]_vars

(***************************************************************************)
(* The registry: hnsw_tuple_pool with HnswInitMemoryPools and              *)
(* HnswCleanupMemoryPools, parented to TopMemoryContext, and callers       *)
(* allocating from the registered pool and freeing what they hold.         *)
(***************************************************************************)
\* HnswDestroyPool(pool): MemoryContextDelete of the pool's context, which is
\* the last one created; the buffer goes with it
HnswDestroyPool(p) ==
    IF ~p.valid
    THEN UNCHANGED <<contexts, mem, lifetimes>>
    ELSE /\ contexts' = SubSeq(contexts, 1, Len(contexts) - 1)
         /\ mem' = [a \in {} |-> 0]
         /\ lifetimes' = [lifetimes EXCEPT ![Len(lifetimes)] = @ + 1]

HnswInitMemoryPools ==
    IF hnsw_tuple_pool.valid
    THEN /\ last' = [NoCall EXCEPT !.op = "init", !.path = "noop"]
         /\ UNCHANGED <<pool, mem, contexts, palloced, checked_out, run, lifetimes>>
    ELSE /\ Len(lifetimes) < MaxInits
         /\ HnswCreatePool(HNSW_TUPLE_ALLOC_SIZE, HNSW_POOL_INITIAL_CHUNKS,
                           ZeroContents(HNSW_TUPLE_ALLOC_SIZE, HNSW_POOL_INITIAL_CHUNKS))
         /\ lifetimes' = IF pool'.valid THEN Append(lifetimes, 0) ELSE lifetimes

\* a faulty variant: the slot keeps the destroyed handle
CleanupWithoutClearingSlot ==
    IF hnsw_tuple_pool.valid
    THEN /\ HnswDestroyPool(hnsw_tuple_pool)
         /\ last' = [NoCall EXCEPT !.op = "cleanup", !.path = "destroyed"]
         /\ UNCHANGED <<pool, palloced, checked_out, run>>
    ELSE /\ last' = [NoCall EXCEPT !.op = "cleanup", !.path = "noop"]
         /\ UNCHANGED <<pool, mem, contexts, palloced, checked_out, run, lifetimes>>

\* the chunks callers held are gone with the buffer
HnswCleanupMemoryPools ==
    IF hnsw_tuple_pool.valid
    THEN /\ HnswDestroyPool(hnsw_tuple_pool)
         /\ pool' = NullPool
         /\ checked_out' = {}
         /\ run' = NoRun
         /\ last' = [NoCall EXCEPT !.op = "cleanup", !.path = "destroyed"]
         /\ UNCHANGED palloced
    ELSE /\ last' = [NoCall EXCEPT !.op = "cleanup", !.path = "noop"]
         /\ UNCHANGED <<pool, mem, contexts, palloced, checked_out, run, lifetimes>>

InitPools == HnswInitMemoryPools /\ UNCHANGED <<ledger, recall>>

CleanupPools == HnswCleanupMemoryPools /\ UNCHANGED <<ledger, recall>>

\* a caller frees a pointer it holds
FreeHeld ==
    /\ \E ptr \in checked_out \cup palloced : HnswPoolFree(ptr)
    /\ UNCHANGED <<lifetimes, ledger, recall>>

NextRegistry == InitPools \/ CleanupPools \/ Alloc \/ FreeHeld

SpecRegistry == Init /\ [][NextRegistry]_vars

(***************************************************************************)
(* Recall tracking (src/src/vector_recall.c): the two settings a session   *)
(* changes, InitVectorRecallTracking, TrackVectorQuery and                 *)
(* ResetRecallStats.  The quotients current_recall and                     *)
(* avg_results_per_query and the timestamp are functions of the sums and   *)
(* of the clock and are left out.  The sample rate is set before the first *)
(* tracked query and kept for the session.                                 *)
(***************************************************************************)
\* query_counter++ on an int: past INT_MAX the behaviour is undefined, and
\* the counter may hold any int afterwards (INT_MIN when the build wraps)
Increment(c) == IF c < INT_MAX THEN {c + 1} ELSE INT_MIN .. INT_MAX

InitVectorRecallTracking ==
    /\ recall' = [recall EXCEPT !.hash = TRUE]
    /\ last' = [NoCall EXCEPT !.op = "recall_init"]

\* SET pgvector.track_recall
SetTrackRecall(on) ==
    /\ recall' = [recall EXCEPT !.track = on]
    /\ last' = [NoCall EXCEPT !.op = "set_track"]

\* SET pgvector.recall_sample_rate
SetSampleRate(n) ==
    /\ recall.calls = 0
    /\ recall' = [recall EXCEPT !.rate = n]
    /\ last' = [NoCall EXCEPT !.op = "set_rate", !.arg = n]

\* TrackVectorQuery(index, ..., limit, kth_distance, ..., num_results, ...);
\* estimated_expected is limit when kth_distance <= 0 and otherwise what the
\* heap scan counts: count_within (0 .. limit) or limit + 1
TrackVectorQuery(index, limit, num_results, estimated_expected) ==
    IF ~recall.track \/ ~recall.hash
    THEN /\ last' = [NoCall EXCEPT !.op = "track", !.arg = index, !.path = "ignored"]
         /\ UNCHANGED recall
    ELSE /\ recall.calls < MaxTracked
         /\ \E counter \in Increment(recall.query_counter) :
                LET old == recall.stats[index]
                    sampled == counter % recall.rate = 0
                    counted == [old EXCEPT !.present = TRUE,
                                           !.total_queries = @ + 1,
                                           !.total_results_returned = @ + num_results]
                    new == IF sampled
                           THEN [counted EXCEPT !.sampled_queries = @ + 1,
                                                !.correct_matches = @ + num_results,
                                                !.total_expected = @ + estimated_expected]
                           ELSE counted
                IN  /\ recall' = [recall EXCEPT !.query_counter = counter,
                                                !.calls = @ + 1,
                                                !.stats[index] = new]
                    /\ last' = [NoCall EXCEPT !.op = "track", !.arg = index,
                                   !.path = IF sampled THEN "sampled" ELSE "counted"]

ResetRecallStats(indexoid) ==
    /\ recall' = IF recall.hash /\ recall.stats[indexoid].present
                 THEN [recall EXCEPT !.stats[indexoid] = [NoStats EXCEPT !.present = TRUE]]
                 ELSE recall
    /\ last' = [NoCall EXCEPT !.op = "reset", !.arg = indexoid]

RecallInit ==
    /\ InitVectorRecallTracking
    /\ UNCHANGED <<pool, mem, contexts, palloced, checked_out, run, lifetimes, ledger>>

SetTrack ==
    /\ \E on \in BOOLEAN : SetTrackRecall(on)
    /\ UNCHANGED <<pool, mem, contexts, palloced, checked_out, run, lifetimes, ledger>>

SetRate ==
    /\ \E n \in 1 .. MaxSampleRate : SetSampleRate(n)
    /\ UNCHANGED <<pool, mem, contexts, palloced, checked_out, run, lifetimes, ledger>>

Track ==
    /\ \E index \in IndexOids, limit \in 1 .. MaxLimit :
           \E num_results \in 0 .. limit, estimated_expected \in 0 .. (limit + 1) :
               TrackVectorQuery(index, limit, num_results, estimated_expected)
    /\ UNCHANGED <<pool, mem, contexts, palloced, checked_out, run, lifetimes, ledger>>

Reset ==
    /\ \E indexoid \in IndexOids : ResetRecallStats(indexoid)
    /\ UNCHANGED <<pool, mem, contexts, palloced, checked_out, run, lifetimes, ledger>>

NextRecall == RecallInit \/ SetTrack \/ SetRate \/ Track \/ Reset

SpecRecall == Init /\ [][NextRecall]_vars

(***************************************************************************)
(* Disciplined callers: a pool is created, callers allocate from it and    *)
(* free only pointers they were given and have not freed since.  The       *)
(* ledger keeps those pointers (owed), and, while the run has the shape    *)
(* "allocs, then frees", what the allocs returned and what went to pfree.  *)
(***************************************************************************)
LedgerAfterAlloc(ptr) ==
    IF ledger.shape \in {"fresh", "allocs"}
    THEN [shape |-> "allocs", owed |-> Append(ledger.owed, ptr),
          returned |-> Append(ledger.returned, ptr), pfreed |-> <<>>]
    ELSE [shape |-> "mixed", owed |-> Append(ledger.owed, ptr),
          returned |-> <<>>, pfreed |-> <<>>]

\* the caller frees owed[k]; passed is what the call handed to pfree
LedgerAfterFree(k, passed) ==
    LET rest == [i \in 1 .. (Len(ledger.owed) - 1) |->
                    IF i < k THEN ledger.owed[i] ELSE ledger.owed[i + 1]]
    IN  IF ledger.shape \in {"allocs", "frees"}
        THEN [shape |-> "frees", owed |-> rest,
              returned |-> ledger.returned, pfreed |-> ledger.pfreed \o passed]
        ELSE [shape |-> "mixed", owed |-> rest, returned |-> <<>>, pfreed |-> <<>>]

HeldCreate ==
    /\ \E chunk_size \in SizeT, initial_chunks \in 0 .. MaxChunks :
           HnswCreatePool(chunk_size, initial_chunks,
                          ZeroContents(chunk_size, initial_chunks))
    /\ ledger' = IF pool'.valid THEN [NoLedger EXCEPT !.shape = "fresh"] ELSE ledger
    /\ UNCHANGED <<lifetimes, recall>>

HeldAlloc ==
    /\ pool.valid
    /\ \E size \in AllocSizes, addr \in FallbackAddrs \cup {NULL} :
           HnswPoolAlloc(size, addr)
    /\ ledger' = LedgerAfterAlloc(last'.ret)
    /\ UNCHANGED <<lifetimes, recall>>

HeldFree ==
    /\ pool.valid
    /\ \E k \in 1 .. Len(ledger.owed) :
           /\ HnswPoolFree(ledger.owed[k])
           /\ ledger' = LedgerAfterFree(k, last'.pfreed)
    /\ UNCHANGED <<lifetimes, recall>>

NextHeld == HeldCreate \/ HeldAlloc \/ HeldFree

SpecHeld == Init /\ [][NextHeld]_vars

(***************************************************************************)
(* Vocabulary of the properties, stated on addresses and not through the   *)
(* tests of the code.                                                      *)
(***************************************************************************)
\* [pool_memory, pool_memory + chunk_size*total_chunks)
InRange(p, a) ==
    /\ a >= p.pool_memory
    /\ a < p.pool_memory + p.chunk_size * p.total_chunks

\* a is the address of a chunk of the buffer
IsChunk(p, a) ==
    /\ InRange(p, a)
    /\ p.chunk_size > 0
    /\ (a - p.pool_memory) % p.chunk_size = 0

\* freelist[0..freelist_count)
LiveEntries(p) == {p.freelist[i] : i \in 1 .. p.freelist_count}

\* the indexes of freelist[0..freelist_count) that hold a
IndexesOf(p, a) == {i \in 1 .. p.freelist_count : p.freelist[i] = a}

Min(a, b) == IF a <= b THEN a ELSE b

\* the chunk addresses of the buffer
ChunkAddrs(p) == {p.pool_memory + i * p.chunk_size : i \in 0 .. (p.total_chunks - 1)}

\* how often a occurs in a sequence
Occurrences(seq, a) == Cardinality({k \in DOMAIN seq : seq[k] = a})

(* C1: for every pool HnswCreatePool returns and every sequence of
   HnswPoolAlloc/HnswPoolFree calls with any sizes and any pointers,
   0 <= freelist_count <= total_chunks in every reachable state. *)
C1_FreelistCountInBounds ==
    pool.valid => (0 <= pool.freelist_count /\ pool.freelist_count <= pool.total_chunks)

\* an in-range pointer was freed into a full free list and dropped
C1_Witness ==
    /\ pool.valid
    /\ pool.total_chunks > 0
    /\ pool.freelist_count = pool.total_chunks
    /\ last.op = "free"
    /\ InRange(pool, last.arg)
    /\ ~IsChunk(pool, last.arg)
    /\ last.arg \notin LiveEntries(pool)

(* C2: in every reachable state of a pool, an address that is checked out
   (returned by HnswPoolAlloc from the free list and not freed since) does
   not appear in freelist[0..freelist_count). *)
C2_CheckedOutNotInFreelist ==
    pool.valid => (checked_out \cap LiveEntries(pool) = {})

\* C2 on the pools whose chunk_size is not 0 (holds; not the claim)
C2_WhenChunkSizePositive ==
    (pool.valid /\ pool.chunk_size > 0) => (checked_out \cap LiveEntries(pool) = {})

(* C3: in every reachable state of every pool HnswCreatePool returns, for
   every chunk_size >= 0 and chunk_count >= 0, no address occurs at two
   different indexes of freelist[0..freelist_count). *)
C3_NoDuplicateEntries ==
    pool.valid =>
        \A i, j \in 1 .. pool.freelist_count :
            i # j => pool.freelist[i] # pool.freelist[j]

\* C3 on the pools whose chunk_size is not 0 (holds; not the claim)
C3_WhenChunkSizePositive ==
    (pool.valid /\ pool.chunk_size > 0) =>
        \A i, j \in 1 .. pool.freelist_count :
            i # j => pool.freelist[i] # pool.freelist[j]

(* C4: in every reachable state, every entry of freelist[0..freelist_count)
   lies in [pool_memory, pool_memory + chunk_size*total_chunks) at an offset
   from pool_memory that is a multiple of chunk_size, also after
   HnswPoolFree of an in-range pointer into the interior of a chunk. *)
C4_EntriesAreChunks ==
    pool.valid => \A a \in LiveEntries(pool) : IsChunk(pool, a)

\* C4 on the pools whose chunk_size is not 0: an interior pointer that was
\* freed sits in the free list (violated; the part of C4 about alignment)
C4_WhenChunkSizePositive ==
    (pool.valid /\ pool.chunk_size > 0) => \A a \in LiveEntries(pool) : IsChunk(pool, a)

(* C5: on a freshly created pool with chunk_count chunks, chunk_count
   consecutive HnswPoolAlloc calls with size <= chunk_size return pairwise
   distinct addresses inside the pool's range; the next such call returns
   an address outside the range and leaves freelist_count at 0. *)
C5_ExhaustThenFallBack ==
    (pool.valid /\ run.ok) =>
        LET n == pool.total_chunks
            r == run.results
            k == Min(Len(r), n)
        IN  /\ \A i \in 1 .. k : InRange(pool, r[i])
            /\ \A i, j \in 1 .. k : i # j => r[i] # r[j]
            /\ Len(r) = n + 1 =>
                   (~InRange(pool, r[n + 1]) /\ pool.freelist_count = 0)

\* C5 on the pools whose chunk_size is not 0 (holds; not the claim)
C5_WhenChunkSizePositive ==
    (pool.valid /\ pool.chunk_size > 0) => C5_ExhaustThenFallBack

(* C6: HnswPoolFree is idempotent on an in-pool chunk pointer p: in any
   reachable state, once HnswPoolFree(pool, p) has been called, calling it
   again leaves the free list and freelist_count as they are, and p is
   present at exactly one index. *)
C6_FreeTwiceAsOnce ==
    (pool.valid /\ last.op = "free" /\ IsChunk(pool, last.arg)) =>
        /\ PoolAfterFree(pool, last.arg) = pool
        /\ Cardinality(IndexesOf(pool, last.arg)) = 1

\* the part of C6 that holds: the second call changes nothing
C6_SecondFreeChangesNothing ==
    (pool.valid /\ last.op = "free" /\ InRange(pool, last.arg)) =>
        PoolAfterFree(pool, last.arg) = pool

(* C7: HnswPoolFree of a non-null pointer outside
   [pool_memory, pool_memory + chunk_size*total_chunks) passes the pointer
   to pfree exactly once and leaves freelist_count and every free-list
   entry unchanged, in every reachable pool state. *)
C7_ForeignFreeForwarded ==
    [][(/\ pool.valid
        /\ last'.op = "free"
        /\ last'.arg # NULL
        /\ ~InRange(pool, last'.arg))
       => (/\ last'.pfreed = <<last'.arg>>
           /\ pool'.freelist = pool.freelist
           /\ pool'.freelist_count = pool.freelist_count)]_vars

\* the address just past the buffer was freed while some chunks were out
C7_Witness ==
    /\ pool.valid
    /\ pool.chunk_size > 0
    /\ last.op = "free"
    /\ last.arg = pool.pool_memory + pool.chunk_size * pool.total_chunks
    /\ last.pfreed = <<last.arg>>
    /\ 0 < pool.freelist_count
    /\ pool.freelist_count < pool.total_chunks

(* C8: in any reachable state, if a checked-out in-pool chunk p is freed
   with HnswPoolFree and the very next pool operation is an HnswPoolAlloc
   with size <= chunk_size, that alloc returns exactly p. *)
C8_LastFreedFirstReused ==
    [][(/\ pool.valid
        /\ last.op = "free"
        /\ last.held
        /\ IsChunk(pool, last.arg)
        /\ last'.op = "alloc"
        /\ last'.arg <= pool.chunk_size)
       => last'.ret = last.arg]_vars

\* the part of C8 that holds: a freed pointer that was pushed is reused next
C8_PushedIsReused ==
    [][(/\ pool.valid
        /\ last.op = "free"
        /\ last.path = "push"
        /\ last'.op = "alloc"
        /\ last'.arg <= pool.chunk_size)
       => last'.ret = last.arg]_vars

(* C9: every HnswPoolAlloc(pool, size) served from the pool returns a chunk
   whose first size bytes are all zero, whatever was written there before;
   the bytes at offsets >= size, like every other byte, are left as they
   were. *)
C9_ZeroesRequestedPrefixOnly ==
    [][(last'.op = "alloc" /\ last'.path = "pool")
       => \A a \in DOMAIN mem :
              mem'[a] = IF a >= last'.ret /\ a < last'.ret + last'.arg
                        THEN 0 ELSE mem[a]]_vars

\* one byte of a chunk that held nonzero bytes was requested: its first byte
\* reads zero, its second byte is still nonzero
C9_Witness ==
    /\ pool.valid
    /\ last.op = "alloc"
    /\ last.path = "pool"
    /\ last.dirty
    /\ last.arg = 1
    /\ IsChunk(pool, last.ret)
    /\ mem[last.ret] = 0
    /\ mem[last.ret + 1] = 1

(* C10: when the product of the aligned chunk_size and chunk_count
   (chunk_count > 0) does not fit in Size, HnswCreatePool fails with the
   overflow error, returns no handle, and allocates nothing: no child
   context, pool structure, chunk buffer or free-list array remains under
   the parent context after the failed call. *)
C10_OverflowAllocatesNothing ==
    (/\ last.op = "create"
     /\ last.arg2 > 0
     /\ MAXALIGN(last.arg) * last.arg2 > SizeMax)
    => (/\ last.path = "overflow"
        /\ ~pool.valid
        /\ contexts = <<>>)

\* the part of C10 that holds: the error is raised and no handle returned
C10_OverflowIsAnError ==
    (/\ last.op = "create"
     /\ last.arg2 > 0
     /\ MAXALIGN(last.arg) * last.arg2 > SizeMax)
    => (last.path = "overflow" /\ ~pool.valid)

\* len rounded up to the alignment unit, in unbounded arithmetic
RoundUp(len) == ((len + MAXIMUM_ALIGNOF - 1) \div MAXIMUM_ALIGNOF) * MAXIMUM_ALIGNOF

(* C11: for every (chunk_size, chunk_count) whose product does not overflow,
   HnswCreatePool returns a handle with enabled true, total_chunks and
   freelist_count equal to chunk_count, and freelist[i] equal to
   pool_memory + i*chunk_size for every i below chunk_count, so that each
   chunk of the buffer appears exactly once, in ascending address order. *)
C11_CreateListsEachChunkOnce ==
    (/\ last.op = "create"
     /\ RoundUp(last.arg) * last.arg2 <= SizeMax)
    => (/\ last.path = "created"
        /\ pool.valid
        /\ pool.enabled
        /\ pool.total_chunks = last.arg2
        /\ pool.freelist_count = last.arg2
        /\ \A i \in 1 .. last.arg2 :
               pool.freelist[i] = pool.pool_memory + (i - 1) * pool.chunk_size
        /\ \A i, j \in 1 .. last.arg2 : i < j => pool.freelist[i] < pool.freelist[j])

\* the part of C11 that holds: the handle fields and the entry formula
C11_CreateFillsFreelist ==
    (/\ last.op = "create"
     /\ RoundUp(last.arg) * last.arg2 <= SizeMax)
    => (/\ last.path = "created"
        /\ pool.valid
        /\ pool.enabled
        /\ pool.total_chunks = last.arg2
        /\ pool.freelist_count = last.arg2
        /\ \A i \in 1 .. last.arg2 :
               pool.freelist[i] = pool.pool_memory + (i - 1) * pool.chunk_size
        /\ (pool.chunk_size > 0 =>
               \A i, j \in 1 .. last.arg2 : i < j => pool.freelist[i] < pool.freelist[j]))

(* C16: HnswPoolAlloc takes the pool fast path exactly when the handle is
   non-null, enabled, size <= chunk_size and freelist_count > 0; in every
   other case (null handle, disabled pool, oversized request even while
   chunks are free, exhausted pool) it returns a fallback allocation of the
   requested size without error and leaves freelist_count and every
   free-list entry unchanged. *)
C16_FastPathExactlyWhenUsable ==
    [][last'.op = "alloc" =>
          LET size == last'.arg
              fast == /\ pool.valid
                      /\ pool.enabled
                      /\ size <= pool.chunk_size
                      /\ pool.freelist_count > 0
          IN  /\ (last'.path = "pool") <=> fast
              /\ (last'.path = "fallback") <=> ~fast
              /\ fast => /\ last'.ret = pool.freelist[pool.freelist_count]
                         /\ pool'.freelist_count = pool.freelist_count - 1
              /\ ~fast => /\ last'.ret \in FallbackAddrs \ palloced
                          /\ palloced' = palloced \cup {last'.ret}
                          /\ pool' = pool]_vars

\* an oversized request was served by the fallback while chunks were free
C16_Witness ==
    /\ last.op = "alloc"
    /\ last.path = "fallback"
    /\ pool.valid
    /\ pool.enabled
    /\ pool.chunk_size > 0
    /\ pool.freelist_count > 0
    /\ last.arg > pool.chunk_size
    /\ last.ret \in palloced

(* C17: when freelist_count = total_chunks, HnswPoolFree called with any
   pointer inside the pool's address range returns normally (warning only),
   writes no free-list slot and leaves freelist_count unchanged. *)
C17_FreeIntoFullListDropped ==
    [][(/\ last'.op = "free"
        /\ pool.valid
        /\ pool.enabled
        /\ pool.freelist_count = pool.total_chunks
        /\ InRange(pool, last'.arg))
       => (/\ last'.path = "full"
           /\ pool' = pool
           /\ DOMAIN pool'.freelist = 1 .. pool.total_chunks
           /\ palloced' = palloced
           /\ mem' = mem)]_vars

\* a chunk address was freed into a full free list
C17_Witness ==
    /\ last.op = "free"
    /\ last.path = "full"
    /\ pool.valid
    /\ pool.freelist_count = pool.total_chunks
    /\ pool.total_chunks > 1
    /\ IsChunk(pool, last.arg)

(* C18: creation never silently wraps: every handle HnswCreatePool returns
   has a chunk_size that is a multiple of the alignment unit and is at
   least the requested chunk_size, and its buffer size equals the
   mathematical product chunk_size * total_chunks; for every request where
   the round-up or the product would exceed the largest Size value,
   creation fails instead of returning a handle. *)
C18_CreateNeverWraps ==
    last.op = "create" =>
        IF RoundUp(last.arg) > SizeMax \/ RoundUp(last.arg) * last.arg2 > SizeMax
        THEN last.path = "overflow" /\ ~pool.valid
        ELSE /\ pool.valid
             /\ pool.chunk_size % MAXIMUM_ALIGNOF = 0
             /\ pool.chunk_size >= last.arg
             /\ SizeMul(pool.chunk_size, pool.total_chunks)
                    = pool.chunk_size * pool.total_chunks

\* the part of C18 that holds: no wrap once the round-up itself fits
C18_ProductNeverWraps ==
    (last.op = "create" /\ RoundUp(last.arg) <= SizeMax) =>
        IF RoundUp(last.arg) * last.arg2 > SizeMax
        THEN last.path = "overflow" /\ ~pool.valid
        ELSE /\ pool.valid
             /\ pool.chunk_size = RoundUp(last.arg)
             /\ SizeMul(pool.chunk_size, pool.total_chunks)
                    = pool.chunk_size * pool.total_chunks

(* C12: for every sequence of HnswInitMemoryPools / HnswCleanupMemoryPools
   calls in any order and with any repetition: init when a pool is
   registered leaves the registered handle and its free-list state
   unchanged and creates no second pool; cleanup when none is registered
   does nothing; each created pool is destroyed at most once; the registry
   slot is non-null exactly when a created, not yet destroyed pool exists;
   and an init after a cleanup registers a fresh pool with a full free
   list. *)
C12_RegistryInitCleanupIdempotent ==
    /\ [](\A i \in 1 .. Len(lifetimes) : lifetimes[i] <= 1)
    /\ [](hnsw_tuple_pool.valid <=> \E i \in 1 .. Len(lifetimes) : lifetimes[i] = 0)
    /\ [](Len(contexts) = IF hnsw_tuple_pool.valid THEN 1 ELSE 0)
    /\ [][(last'.op = "init" /\ hnsw_tuple_pool.valid)
          => (/\ last'.path = "noop"
              /\ hnsw_tuple_pool' = hnsw_tuple_pool
              /\ UNCHANGED <<mem, contexts, lifetimes, checked_out, palloced>>)]_vars
    /\ [][(last'.op = "cleanup" /\ ~hnsw_tuple_pool.valid)
          => (/\ last'.path = "noop"
              /\ UNCHANGED <<pool, mem, contexts, lifetimes, checked_out, palloced>>)]_vars
    /\ [][(last'.op = "cleanup" /\ hnsw_tuple_pool.valid)
          => (/\ ~hnsw_tuple_pool'.valid
              /\ contexts' = <<>>
              /\ Len(lifetimes') = Len(lifetimes)
              /\ lifetimes'[Len(lifetimes)] = 1)]_vars
    /\ [][(~hnsw_tuple_pool.valid /\ last'.op = "create")
          => (/\ hnsw_tuple_pool'.valid
              /\ hnsw_tuple_pool'.enabled
              /\ hnsw_tuple_pool'.total_chunks = HNSW_POOL_INITIAL_CHUNKS
              /\ hnsw_tuple_pool'.freelist_count = HNSW_POOL_INITIAL_CHUNKS
              /\ \A i \in 1 .. HNSW_POOL_INITIAL_CHUNKS :
                     hnsw_tuple_pool'.freelist[i]
                         = hnsw_tuple_pool'.pool_memory + (i - 1) * hnsw_tuple_pool'.chunk_size
              /\ lifetimes' = Append(lifetimes, 0))]_vars

\* a second pool is registered after a cleanup, a chunk of it is handed out,
\* and a further init finds it registered
C12_Witness ==
    /\ Len(lifetimes) = 2
    /\ lifetimes[1] = 1
    /\ lifetimes[2] = 0
    /\ hnsw_tuple_pool.valid
    /\ hnsw_tuple_pool.freelist_count < hnsw_tuple_pool.total_chunks
    /\ last.op = "init"
    /\ last.path = "noop"

(* C13: for every index, the number of recall samples maintained for it
   (its sampled_queries and the sums accumulated from samples) never
   exceeds pgvector.recall_max_samples: once the limit is reached,
   recording a further sample in TrackVectorQuery discards an older one
   instead of growing the count. *)
C13_SamplesWithinMaxSamples ==
    \A i \in IndexOids : recall.stats[i].sampled_queries <= pgvector_recall_max_samples

(* C14: with recall tracking enabled and the sample rate fixed at N, of the
   tracked TrackVectorQuery calls exactly those numbered N, 2N, 3N, ...
   (counted over all indexes in the session) increment sampled_queries of
   the index they were issued against, and every tracked call increments
   that index's total_queries by exactly 1; calls made while tracking is
   disabled change no counter. *)
C14_SamplesEveryNthTrackedCall ==
    [][last'.op = "track" =>
          LET index == last'.arg
          IN  IF ~recall.track \/ ~recall.hash
              THEN recall' = recall
              ELSE /\ recall'.calls = recall.calls + 1
                   /\ recall'.stats[index].total_queries
                          = recall.stats[index].total_queries + 1
                   /\ recall'.stats[index].sampled_queries
                          = recall.stats[index].sampled_queries
                            + (IF recall'.calls % recall.rate = 0 THEN 1 ELSE 0)
                   /\ \A j \in IndexOids \ {index} : recall'.stats[j] = recall.stats[j]]_vars

\* the part of C14 that holds: the calls made before query_counter reaches
\* INT_MAX
C14_UntilCounterOverflows ==
    [][(last'.op = "track" /\ recall.calls < INT_MAX) =>
          LET index == last'.arg
          IN  IF ~recall.track \/ ~recall.hash
              THEN recall' = recall
              ELSE /\ recall'.calls = recall.calls + 1
                   /\ recall'.stats[index].total_queries
                          = recall.stats[index].total_queries + 1
                   /\ recall'.stats[index].sampled_queries
                          = recall.stats[index].sampled_queries
                            + (IF recall'.calls % recall.rate = 0 THEN 1 ELSE 0)
                   /\ \A j \in IndexOids \ {index} : recall'.stats[j] = recall.stats[j]]_vars

(* C15: balanced use restores the pool: starting from a fresh pool, after
   any sequence of HnswPoolAlloc calls (pool-served or fallback) followed
   by HnswPoolFree of every returned pointer exactly once in any order,
   freelist_count = total_chunks, the free list holds every chunk address
   pool_memory + i*chunk_size exactly once, and every fallback pointer has
   been passed to the ordinary deallocator exactly once and to the free
   list never. *)
C15_BalancedUseRestoresPool ==
    (/\ pool.valid
     /\ ledger.shape = "frees"
     /\ ledger.owed = <<>>)
    => (/\ pool.freelist_count = pool.total_chunks
        /\ \A i \in 0 .. (pool.total_chunks - 1) :
               Cardinality(IndexesOf(pool, pool.pool_memory + i * pool.chunk_size)) = 1
        /\ \A a \in FallbackAddrs :
               /\ Occurrences(ledger.pfreed, a) = Occurrences(ledger.returned, a)
               /\ a \notin LiveEntries(pool))

\* C15 for pools with chunk_size > 0
C15_WhenChunkSizePositive ==
    (/\ pool.valid
     /\ pool.chunk_size > 0
     /\ ledger.shape = "frees"
     /\ ledger.owed = <<>>)
    => (/\ pool.freelist_count = pool.total_chunks
        /\ \A i \in 0 .. (pool.total_chunks - 1) :
               Cardinality(IndexesOf(pool, pool.pool_memory + i * pool.chunk_size)) = 1
        /\ \A k \in DOMAIN ledger.pfreed : ledger.pfreed[k] \in FallbackAddrs
        /\ \A a \in FallbackAddrs :
               /\ Occurrences(ledger.pfreed, a) = Occurrences(ledger.returned, a)
               /\ a \notin LiveEntries(pool))

(* C19: chunk conservation under correct use: for a pool with
   chunk_size > 0, over every sequence in which callers free only pointers
   they currently hold, every chunk address is in exactly one of two
   places in every reachable state, the free list or the set of
   checked-out chunks, so freelist_count plus the number of checked-out
   pool chunks equals total_chunks, and no chunk is ever held by two
   callers at once. *)
C19_ChunkConservation ==
    (pool.valid /\ pool.chunk_size > 0)
    => (/\ LiveEntries(pool) \cup checked_out = ChunkAddrs(pool)
        /\ LiveEntries(pool) \cap checked_out = {}
        /\ \A a \in ChunkAddrs(pool) :
               /\ Cardinality(IndexesOf(pool, a)) + Occurrences(ledger.owed, a) = 1
               /\ a \in checked_out <=> Occurrences(ledger.owed, a) = 1
        /\ pool.freelist_count + Cardinality(checked_out) = pool.total_chunks)

\* allocs and frees were interleaved; two chunks are out, each held once,
\* and the last call handed out a chunk after an earlier free
C19_Witness ==
    /\ pool.valid
    /\ pool.chunk_size > 0
    /\ pool.total_chunks > 1
    /\ ledger.shape = "mixed"
    /\ last.op = "alloc"
    /\ last.path = "pool"
    /\ Occurrences(ledger.owed, last.ret) = 1
    /\ Cardinality(checked_out) = 2
    /\ pool.freelist_count = pool.total_chunks - 2
====
